---- MODULE Spec2Model ----
(***************************************************************************)
(* A model of the classynet recombination source-function network           *)
(* (python/nn/models/T0_reco.py) and of the workspace path builders         *)
(* (python/nn/workspace.py).                                                *)
(*                                                                          *)
(* Numbers.  A tensor entry is modelled exactly, not in floating point:     *)
(*   - a scalar is a fraction [n, d] in lowest terms with d > 0, or one of  *)
(*     the three IEEE special values, written with d = 0:                   *)
(*     [1,0] = +inf, [-1,0] = -inf, [0,0] = NaN;                            *)
(*   - a tensor entry is a term  q * atom * exp(e)  where q and e are       *)
(*     scalars and atom is 1 or one transcendental factor (cos x, sin x,    *)
(*     x^x, a spline value) that has no closed rational value.  The         *)
(*     functions are evaluated where they have an exact value (cos 0 = 1,   *)
(*     sin 0 = 0, exp 0 = 1, exp(-inf) = 0, 0^0 = 1, ...), and kept as an   *)
(*     atom elsewhere.  Two equal terms denote equal numbers.               *)
(***************************************************************************)
EXTENDS Integers, Sequences, FiniteSets, TLC

\* ------------------------------------------------------------------ scalars

Abs(i) == IF i < 0 THEN -i ELSE i

Sgn(i) == IF i < 0 THEN -1 ELSE IF i = 0 THEN 0 ELSE 1

RECURSIVE GCD(_, _)
GCD(a, b) == IF b = 0 THEN a ELSE GCD(b, a % b)

\* The fraction n/d in lowest terms; n/0 is the special value of n's sign.
Q(n, d) ==
    IF d = 0 THEN [n |-> Sgn(n), d |-> 0]
    ELSE LET g == GCD(Abs(n), Abs(d))
             s == Sgn(d)
         IN  [n |-> s * (n \div g), d |-> s * (d \div g)]

Q0 == Q(0, 1)
Q1 == Q(1, 1)
QNaN == [n |-> 0, d |-> 0]
QInf == [n |-> 1, d |-> 0]

QIsNaN(a) == a.d = 0 /\ a.n = 0
QIsFinite(a) == a.d # 0
QSgn(a) == Sgn(a.n)

QNeg(a) == [n |-> -a.n, d |-> a.d]

\* a * b; inf * 0 = NaN.  The factors are cross-reduced before multiplying.
QMul(a, b) ==
    IF QIsNaN(a) \/ QIsNaN(b) THEN QNaN
    ELSE IF a.d = 0 \/ b.d = 0 THEN Q(a.n * b.n, 0)
    ELSE LET g1 == GCD(Abs(a.n), b.d)
             g2 == GCD(Abs(b.n), a.d)
         IN  Q((a.n \div g1) * (b.n \div g2), (a.d \div g2) * (b.d \div g1))

\* 1 / a; 1/0 = +inf, 1/inf = 0.
QInv(a) ==
    IF QIsNaN(a) THEN QNaN
    ELSE IF a.d = 0 THEN Q0
    ELSE IF a.n = 0 THEN QInf
    ELSE Q(Sgn(a.n) * a.d, Abs(a.n))

QDiv(a, b) ==
    IF a.d = 0 /\ b.d = 0 THEN QNaN
    ELSE IF a.n = 0 /\ b.n = 0 THEN QNaN
    ELSE QMul(a, QInv(b))

\* a + b; inf + (-inf) = NaN.  Added over the least common denominator.
QAdd(a, b) ==
    IF QIsNaN(a) \/ QIsNaN(b) THEN QNaN
    ELSE IF a.d = 0 /\ b.d = 0 THEN (IF a.n = b.n THEN a ELSE QNaN)
    ELSE IF a.d = 0 THEN a
    ELSE IF b.d = 0 THEN b
    ELSE LET g == GCD(a.d, b.d)
         IN  Q(a.n * (b.d \div g) + b.n * (a.d \div g), (a.d \div g) * b.d)

QSub(a, b) == QAdd(a, QNeg(b))

\* Comparisons as torch makes them: every comparison with NaN is false.
QLe(a, b) ==
    /\ ~QIsNaN(a) /\ ~QIsNaN(b)
    /\ IF a.d = 0 /\ b.d = 0 THEN a.n <= b.n
       ELSE IF a.d = 0 THEN a.n < 0
       ELSE IF b.d = 0 THEN b.n > 0
       ELSE a.n * b.d <= b.n * a.d

QGe(a, b) == QLe(b, a)

QLt(a, b) == QLe(a, b) /\ a # b

RECURSIVE QPowInt(_, _)
\* a ** m for an integer m >= 0 (a ** 0 = 1, also for a = 0).
QPowInt(a, m) == IF m = 0 THEN Q1 ELSE QMul(a, QPowInt(a, m - 1))

\* a ** m for any integer m.
QPow(a, m) == IF m >= 0 THEN QPowInt(a, m) ELSE QInv(QPowInt(a, -m))

\* -------------------------------------------------------------------- terms

NoAtom == [f |-> "one", x |-> Q0, s |-> <<>>]

Term(q, a, e) == [q |-> q, a |-> a, e |-> e]

TZero == Term(Q0, NoAtom, Q0)
TOne == Term(Q1, NoAtom, Q0)
TNaN == Term(QNaN, NoAtom, Q0)

\* The term of a scalar.
TQ(q) == Term(q, NoAtom, Q0)

TIsNaN(t) == QIsNaN(t.q)
TIsFinite(t) == QIsFinite(t.q)

\* A term whose coefficient is 0 or NaN is 0 or NaN whatever its factors.
TNorm(t) ==
    IF QIsNaN(t.q) \/ QIsNaN(t.e) THEN TNaN
    ELSE IF t.e = QInf THEN
        (IF t.q.n = 0 THEN TNaN ELSE Term(Q(t.q.n, 0), t.a, Q0))
    ELSE IF t.e = QNeg(QInf) THEN
        (IF t.q.d = 0 THEN TNaN ELSE TZero)
    ELSE IF t.q.n = 0 /\ t.q.d # 0 THEN TZero
    ELSE t

\* t * u, for terms of which at most one carries an atom.
TMul(t, u) ==
    IF TIsNaN(t) \/ TIsNaN(u) THEN TNaN
    ELSE TNorm(Term(QMul(t.q, u.q),
                    IF t.a = NoAtom THEN u.a ELSE t.a,
                    QAdd(t.e, u.e)))

\* t / u, for a divisor without atom.
TDiv(t, u) ==
    IF TIsNaN(t) \/ TIsNaN(u) THEN TNaN
    ELSE TNorm(Term(QDiv(t.q, u.q), t.a, QSub(t.e, u.e)))

\* torch.exp
Exp(x) == TNorm(Term(Q1, NoAtom, x))

\* torch.cos
Cos(x) ==
    IF ~QIsFinite(x) THEN TNaN
    ELSE IF x = Q0 THEN TOne
    ELSE Term(Q1, [f |-> "cos", x |-> x, s |-> <<>>], Q0)

\* torch.sin
Sin(x) ==
    IF ~QIsFinite(x) THEN TNaN
    ELSE IF x = Q0 THEN TZero
    ELSE Term(Q1, [f |-> "sin", x |-> x, s |-> <<>>], Q0)

\* x ** x as Python computes it for a float x: 0.0 ** 0.0 = 1.0, an integral
\* x gives a rational, any other x an irrational (x > 0) or complex (x < 0)
\* number, kept as an atom.
PowSelf(x) ==
    IF x.d = 1 THEN TQ(QPow(x, x.n))
    ELSE Term(Q1, [f |-> "pow", x |-> x, s |-> <<>>], Q0)

\* ------------------------------------------------------------ tensor helpers

\* The elementwise map of a vector, and the tensors of sizes the code builds.
Vec(n, F(_)) == [i \in 1..n |-> F(i)]

SeqRange(s) == {s[i] : i \in DOMAIN s}

RECURSIVE SeqsUpTo(_, _)
\* All sequences over S of length 1..n.
SeqsUpTo(S, n) ==
    IF n = 0 THEN {}
    ELSE SeqsUpTo(S, n - 1) \cup [1..n -> S]

\* ------------------------------------------------- BasisDecompositionNet

n_phases == 5
n_damping == 2
n_coefficients == 2
parameter_counts == <<n_phases, n_damping, n_coefficients>>
parameter_count == n_phases + n_damping + n_coefficients
n_spline_points == 12

\* 0.6, the upper end of spline_range.
KHi == Q(3, 5)
\* rtol = 1e-4
rtol == Q(1, 10000)

\* utils.powerspace(start, stop, power, num): num points from start to stop,
\* spaced as t^power for t = 0, 1/(num-1), ..., 1.
powerspace(start, stop, power, num) ==
    [j \in 1..num |->
        QAdd(start, QMul(QSub(stop, start), QPow(Q(j - 1, num - 1), power)))]

\* __init__, lines 56-63: spline_range and k_spline of a grid kk.
InitSplineRange(kk) == <<kk[1], KHi>>

InitKSpline(kk) ==
    powerspace(QMul(QSub(Q1, rtol), InitSplineRange(kk)[1]),
               QMul(QAdd(Q1, rtol), InitSplineRange(kk)[2]),
               3, n_spline_points)

\* The assert statements removed, as under python -O.
InitAssertsStripped(ks, range) == TRUE

\* The two assert statements of __init__.
InitAssertsHold(ks, range) ==
    /\ QLe(ks[1], range[1])
    /\ QGe(ks[Len(ks)], range[2])

\* torch.split(parameters, parameter_counts, dim=1) on one row: the part-th
\* chunk of the row.
RECURSIVE SumTo(_, _)
SumTo(counts, m) == IF m = 0 THEN 0 ELSE counts[m] + SumTo(counts, m - 1)

Split(row, counts, part) ==
    SubSeq(row, SumTo(counts, part - 1) + 1, SumTo(counts, part))

\* pytorch_spline.CubicSpline(log k_spline, values) at log(kk): the natural
\* cubic spline through the control points.  It is NaN when a logarithm is
\* not finite, the constant c when every control value is c, and otherwise a
\* number that depends on the control values and on kk.
SplineAt(ks, values, kk) ==
    IF \E j \in DOMAIN ks : ~QIsFinite(ks[j]) \/ QLe(ks[j], Q0) THEN TNaN
    ELSE IF ~QIsFinite(kk) \/ QLe(kk, Q0) THEN TNaN
    ELSE IF \E j \in DOMAIN values : ~QIsFinite(values[j]) THEN TNaN
    ELSE IF \A j \in DOMAIN values : values[j] = values[1] THEN TQ(values[1])
    ELSE Term(Q1, [f |-> "spline", x |-> kk, s |-> values], Q0)

\* basis(self, k, r_s, values): the stack (cos, sin * arg_inv), indexed
\* [branch][sample][grid point].  k_2 is taken from self.k, k_ from the
\* argument, as in the code.
basis(self, kk, r_s, values) ==
    LET nb == Len(r_s)
        nk == Len(kk)
        arg(b, i) == QMul(kk[i], r_s[b])
        arg_inv(b, i) == QMul(QInv(kk[i]), QInv(r_s[b]))
        k_2(i) == QMul(self.k[i], self.k[i])
        arg_cos(b, i) ==
            QAdd(QAdd(values[b][1], QMul(arg(b, i), QAdd(Q1, values[b][2]))),
                 QMul(k_2(i), values[b][3]))
        arg_sin(b, i) ==
            QAdd(QMul(arg(b, i), QAdd(Q1, values[b][4])),
                 QMul(k_2(i), values[b][5]))
    IN  << [b \in 1..nb |-> [i \in 1..nk |-> Cos(arg_cos(b, i))]],
           [b \in 1..nb |-> [i \in 1..nk |->
                TMul(Sin(arg_sin(b, i)), TQ(arg_inv(b, i)))]] >>

\* The local variables of one forward call.
NewFrame(x) ==
    [x |-> x, phases |-> <<>>, delta_k_d |-> <<>>, coefficients |-> <<>>,
     basis |-> <<>>, damping |-> <<>>, B |-> <<>>, result |-> <<>>]

\* Each part of forward maps (self, frame) to (self, frame): what it leaves
\* of the object and of its local variables.

\* forward, lines 96-112: the parameters are split and the basis computed.
forward_basis(self, fr) ==
    LET nb == Len(fr.x)
        r_s == [b \in 1..nb |-> fr.x[b].r_s]
        phases == [b \in 1..nb |-> Split(fr.x[b].parameters, parameter_counts, 1)]
        delta_k_d == [b \in 1..nb |-> Split(fr.x[b].parameters, parameter_counts, 2)]
        coefficients == [b \in 1..nb |-> Split(fr.x[b].parameters, parameter_counts, 3)]
    IN  [self |-> self,
         fr |-> [fr EXCEPT !.phases = phases, !.delta_k_d = delta_k_d,
                           !.coefficients = coefficients,
                           !.basis = basis(self, self.k, r_s, phases)]]

\* The damping with k2 computed in place (self.k.pow_(2)): self.k is left
\* squared.
forward_damping_in_place(self, fr) ==
    LET nb == Len(fr.x)
        nk == Len(self.k)
        k2(i) == QMul(self.k[i], self.k[i])
        k_over_k_d2(b, i) == QDiv(k2(i), QMul(fr.x[b].k_d, fr.x[b].k_d))
        arg(c, b, i) ==
            QMul(QNeg(k_over_k_d2(b, i)),
                 QPow(QAdd(Q1, fr.delta_k_d[b][c]), 2))
    IN  [self |-> [self EXCEPT !.k = [i \in 1..nk |-> k2(i)]],
         fr |-> [fr EXCEPT !.damping =
                    [c \in 1..n_damping |-> [b \in 1..nb |-> [i \in 1..nk |->
                        Exp(arg(c, b, i))]]]]]

\* The damping built from the first delta_k_d alone, for both branches.
forward_damping_shared(self, fr) ==
    LET nb == Len(fr.x)
        nk == Len(self.k)
        k2(i) == QMul(self.k[i], self.k[i])
        k_over_k_d2(b, i) == QDiv(k2(i), QMul(fr.x[b].k_d, fr.x[b].k_d))
        arg(c, b, i) ==
            QMul(QNeg(k_over_k_d2(b, i)),
                 QPow(QAdd(Q1, fr.delta_k_d[b][1]), 2))
    IN  [self |-> self,
         fr |-> [fr EXCEPT !.damping =
                    [c \in 1..n_damping |-> [b \in 1..nb |-> [i \in 1..nk |->
                        Exp(arg(c, b, i))]]]]]

\* forward, lines 114-120: damping[c][b][i] =
\* exp(-(k[i]^2 / k_d[b]^2) * (1 + delta_k_d[b][c])^2), c over the rows of
\* delta_k_d.T.
forward_damping(self, fr) ==
    LET nb == Len(fr.x)
        nk == Len(self.k)
        k2(i) == QMul(self.k[i], self.k[i])
        k_over_k_d2(b, i) == QDiv(k2(i), QMul(fr.x[b].k_d, fr.x[b].k_d))
        arg(c, b, i) ==
            QMul(QNeg(k_over_k_d2(b, i)),
                 QPow(QAdd(Q1, fr.delta_k_d[b][c]), 2))
    IN  [self |-> self,
         fr |-> [fr EXCEPT !.damping =
                    [c \in 1..n_damping |-> [b \in 1..nb |-> [i \in 1..nk |->
                        Exp(arg(c, b, i))]]]]]

\* The mask with the upper bound excluded.
mask_open(self, i) ==
    /\ QGe(self.k[i], self.spline_range[1])
    /\ QLt(self.k[i], self.spline_range[2])

\* forward, line 133: the mask of the grid points the spline is evaluated at.
mask(self, i) ==
    /\ QGe(self.k[i], self.spline_range[1])
    /\ QLe(self.k[i], self.spline_range[2])

\* forward, lines 123-135: B is zero, and the spline on the masked columns.
forward_spline(self, fr) ==
    LET nb == Len(fr.x)
        nk == Len(self.k)
    IN  [self |-> self,
         fr |-> [fr EXCEPT !.B =
                    [b \in 1..nb |-> [i \in 1..nk |->
                        IF mask(self, i)
                        THEN SplineAt(self.k_spline, fr.x[b].spline_values, self.k[i])
                        ELSE TZero]]]]

\* The stack with the spline residual first.
forward_cat_residual_first(self, fr) ==
    LET nb == Len(fr.x)
        nk == Len(self.k)
        weighted ==
            [c \in 1..n_coefficients |-> [b \in 1..nb |-> [i \in 1..nk |->
                TMul(TMul(TQ(fr.coefficients[b][c]), fr.basis[c][b][i]),
                     fr.damping[c][b][i])]]]
    IN  [self |-> self,
         fr |-> [fr EXCEPT !.result = <<fr.B>> \o weighted]]

\* forward, lines 137-142: torch.cat((coefficients.T[..., None] * basis *
\* damping, B[None, :, :]), dim=0).
forward_cat(self, fr) ==
    LET nb == Len(fr.x)
        nk == Len(self.k)
        weighted ==
            [c \in 1..n_coefficients |-> [b \in 1..nb |-> [i \in 1..nk |->
                TMul(TMul(TQ(fr.coefficients[b][c]), fr.basis[c][b][i]),
                     fr.damping[c][b][i])]]]
    IN  [self |-> self,
         fr |-> [fr EXCEPT !.result = weighted \o <<fr.B>>]]

\* BasisDecompositionNet.forward(x) as a whole.
forward(self, x) ==
    LET s1 == forward_basis(self, NewFrame(x))
        s2 == forward_damping(s1.self, s1.fr)
        s3 == forward_spline(s2.self, s2.fr)
    IN  forward_cat(s3.self, s3.fr)

\* x ** x computed as exp(x * log(x)): log(0) = -inf and 0 * (-inf) = NaN.
PowSelfByLog(x) ==
    IF x = Q0 THEN TNaN
    ELSE IF x.d = 1 THEN TQ(QPow(x, x.n))
    ELSE Term(Q1, [f |-> "pow", x |-> x, s |-> <<>>], Q0)

\* norm_cos with the power taken through the logarithm.
norm_cos_by_log(n) ==
    TMul(TMul(TQ(QPow(Q(3, 10), n)), PowSelfByLog(Q(n, 2))), Exp(Q(-n, 2)))

\* norm_cos(n) = 0.3**n * (n/2)**(n/2) * np.exp(-n/2), for a Python int n.
norm_cos(n) ==
    TMul(TMul(TQ(QPow(Q(3, 10), n)), PowSelf(Q(n, 2))), Exp(Q(-n, 2)))

\* norm_sin with the special case at n = 0 that its comment speaks of.
norm_sin_at_zero(n) ==
    IF n = 0 THEN TQ(Q(500, 1))
    ELSE norm_cos(n)

\* norm_sin(n)
norm_sin(n) ==
    IF n = -1 THEN TQ(Q(500, 1))
    ELSE norm_cos(n)

\* CorrectionNet.forward(x): one learned curve per sample over the grid.
correction(self, x) ==
    [b \in 1..Len(x) |-> [i \in 1..Len(self.k) |-> TQ(x[b].correction)]]

RECURSIVE SumQ(_, _, _, _)
\* The sum of the coefficients of the terms ts[1..m] that carry the factors
\* (a, e).
SumQ(ts, m, a, e) ==
    IF m = 0 THEN Q0
    ELSE IF ts[m].a = a /\ ts[m].e = e
         THEN QAdd(SumQ(ts, m - 1, a, e), ts[m].q)
         ELSE SumQ(ts, m - 1, a, e)

\* tensor.sum over a list of terms: the terms of the sum, like factors
\* collected; NaN if the sum is NaN.
SumTerms(ts) ==
    LET keys == {<<ts[m].a, ts[m].e>> : m \in DOMAIN ts}
        all == {Term(SumQ(ts, Len(ts), key[1], key[2]), key[1], key[2]) : key \in keys}
    IN  IF \E t \in all : QIsNaN(t.q) THEN {TNaN}
        ELSE {t \in all : t.q # Q0}

\* Net_ST0_Reco.forward, lines 276-282: cat of the basis stack and the
\* correction, summed over dim 0.
net_forward(self, x) ==
    CHOOSE summed \in
        {[b \in 1..Len(x) |-> [i \in 1..Len(self.k) |->
             SumTerms([c \in 1..Len(stack) |-> stack[c][b][i]])]] :
         stack \in {forward(self, x).fr.result \o <<correction(self, x)>>}} : TRUE

\* The exception a forward call ends with: forward and basis hold no raise
\* and no assert statement, and a float division by zero is not an error in
\* torch.
forward_raises(self, x) == "none"

\* self.k_min: <<>> while the attribute does not exist, <<value>> once set.
NoKMin == <<>>

\* Net_ST0_Reco.forward and forward_reduced_mode, first statement:
\* self.k_min = x["k_min"][0]
first_k_min(x) == <<x[1].k_min>>

RECURSIVE Flatten(_)
\* torch.flatten of a matrix: its rows one after the other.
Flatten(rows) == IF rows = <<>> THEN <<>> ELSE Head(rows) \o Flatten(Tail(rows))

\* Net_ST0_Reco.forward_reduced_mode: the columns from k_min_idx on, times
\* output_normalization (ones), flattened.
forward_reduced_mode(self, x, k_min_idx) ==
    CHOOSE flat \in
        {Flatten([b \in 1..Len(x) |-> SubSeq(full[b], k_min_idx + 1, Len(self.k))]) :
         full \in {net_forward(self, x)}} : TRUE

\* common.mse_truncate(k, k_min): the mean squared error truncated at k_min,
\* known here by the grid and the k_min it was made with.
mse_truncate(kk, kmin) == [k |-> kk, k_min |-> kmin]

\* A loss that keeps the k_min the model had when criterion() made it.
loss_bound_at_criterion(kk, now, then) ==
    IF then = NoKMin THEN [err |-> "AttributeError", val |-> <<>>]
    ELSE [err |-> "none", val |-> mse_truncate(kk, then[1])]

\* The loss function criterion() returns, called: the closure holds self, so
\* self.k and self.k_min are read now; then is self.k_min as it was when
\* criterion() made the closure.
loss(kk, now, then) ==
    IF now = NoKMin THEN [err |-> "AttributeError", val |-> <<>>]
    ELSE [err |-> "none", val |-> mse_truncate(kk, now[1])]

\* ------------------------------------------------------------------ training

\* Net_ST0_Reco.epochs()
epochs == 40

\* The parameters of the modules, by name.
\* BasisDecompositionNet.spline_parameters()
spline_parameters ==
    {"net_basis.spline_value_net_cosmo.weight", "net_basis.spline_value_net_cosmo.bias",
     "net_basis.spline_value_net_tau.weight", "net_basis.spline_value_net_tau.bias",
     "net_basis.spline_value_net.0.weight",
     "net_basis.spline_value_net.1.weight", "net_basis.spline_value_net.1.bias",
     "net_basis.spline_value_net.2.weight",
     "net_basis.spline_value_net.3.weight", "net_basis.spline_value_net.3.bias"}

\* self.net_basis.parameters()
basis_parameters ==
    {"net_basis.k_spline"} \cup spline_parameters \cup
    {"net_basis.lin_cosmo.weight", "net_basis.lin_cosmo.bias",
     "net_basis.lin_tau.weight", "net_basis.lin_tau.bias",
     "net_basis.lin_parameters.0.weight",
     "net_basis.lin_parameters.1.weight", "net_basis.lin_parameters.1.bias",
     "net_basis.lin_parameters.2.weight",
     "net_basis.lin_parameters.3.weight", "net_basis.lin_parameters.3.bias",
     "net_basis.lin_parameters.4.weight",
     "net_basis.lin_parameters.5.weight", "net_basis.lin_parameters.5.bias"}

\* self.net_correction.parameters()
correction_parameters ==
    {"net_correction.lin_cosmo_corr.weight", "net_correction.lin_cosmo_corr.bias",
     "net_correction.lin_tau_corr.weight", "net_correction.lin_tau_corr.bias",
     "net_correction.lin_corr_1.weight", "net_correction.lin_corr_1.bias",
     "net_correction.lin_corr_2.weight", "net_correction.lin_corr_2.bias",
     "net_correction.lin_corr_3.weight", "net_correction.lin_corr_3.bias",
     "net_correction.relu.weight"}

\* The parameters made with requires_grad=False: no gradient, no update.
no_grad_parameters == {"net_basis.k_spline"}

\* A parameter group of the optimizer.
Group(params, lr) == [params |-> params, initial_lr |-> lr, lr |-> TQ(lr)]

\* Net_ST0_Reco.optimizer(): the groups of torch.optim.Adam
optimizer(learning_rate) ==
    <<Group(basis_parameters \ spline_parameters, learning_rate),
      Group(spline_parameters, learning_rate),
      Group(correction_parameters, learning_rate)>>

\* A schedule that lets the spline group decay like the basis group.
lr_lambda_unphased(g, epoch) ==
    CASE g = 1 -> Exp(Q(-epoch, 8))
      [] g = 2 -> Exp(Q(-epoch, 8))
      [] g = 3 -> IF epoch < 5 THEN TZero ELSE Exp(Q(-(epoch - 5), 8))

\* Net_ST0_Reco.lr_scheduler(): the three lambdas, by group
lr_lambda(g, epoch) ==
    CASE g = 1 -> Exp(Q(-epoch, 8))
      [] g = 2 -> IF epoch < 5 THEN Exp(Q(-epoch, 8)) ELSE TZero
      [] g = 3 -> IF epoch < 5 THEN TZero ELSE Exp(Q(-(epoch - 5), 8))

\* LambdaLR at an epoch: lr = initial_lr * lr_lambda(epoch), group by group.
LambdaLR(groups, epoch) ==
    [g \in 1..Len(groups) |->
        [groups[g] EXCEPT !.lr = TMul(TQ(groups[g].initial_lr), lr_lambda(g, epoch))]]

\* Adam.step(): the parameters it can change are those with a gradient in a
\* group whose lr is not 0 (the step is lr times a bounded direction).
adam_step(groups) ==
    UNION {IF groups[g].lr = TZero THEN {} ELSE groups[g].params \ no_grad_parameters :
               g \in 1..Len(groups)}

\* ----------------------------------------------------------------- workspace
\* A path is the sequence of its components; the file system is the set of
\* the directories and the set of the regular files that exist.

Parent(p) == SubSeq(p, 1, Len(p) - 1)

IsPrefix(p, q) == Len(p) <= Len(q) /\ SubSeq(q, 1, Len(p)) = p

IsDir(fs, p) == p = <<>> \/ p \in fs.dirs

\* An operation ends with the file system it leaves, the exception it raised
\* ("none" if it returned) and the value it returned.
Outcome(fs, err, val) == [fs |-> fs, err |-> err, val |-> val]

\* os.mkdir(p)
os_mkdir(fs, p) ==
    IF IsDir(fs, p) \/ p \in fs.files THEN Outcome(fs, "FileExistsError", p)
    ELSE IF \E n \in 1..(Len(p) - 1) : SubSeq(p, 1, n) \in fs.files
        THEN Outcome(fs, "NotADirectoryError", p)
    ELSE IF ~IsDir(fs, Parent(p)) THEN Outcome(fs, "FileNotFoundError", p)
    ELSE Outcome([fs EXCEPT !.dirs = @ \cup {p}], "none", p)

RECURSIVE mkdir(_, _, _, _)
\* pathlib.Path.mkdir(parents=..., exist_ok=...)
mkdir(fs, p, parents, exist_ok) ==
    LET first == os_mkdir(fs, p)
    IN  IF first.err = "none" THEN first
        ELSE IF first.err = "FileNotFoundError" THEN
            IF ~parents \/ p = <<>> THEN first
            ELSE LET up == mkdir(fs, Parent(p), TRUE, TRUE)
                 IN  IF up.err # "none" THEN Outcome(up.fs, up.err, p)
                     ELSE mkdir(up.fs, p, FALSE, exist_ok)
        ELSE IF exist_ok /\ IsDir(fs, p) THEN Outcome(fs, "none", p)
        ELSE first

\* A decorated property that returns its path without making it.
create_dir_forgotten(fs, p) == Outcome(fs, "none", p)

\* @create_dir: path.mkdir(parents=True, exist_ok=True); return path
create_dir(fs, p) == mkdir(fs, p, TRUE, TRUE)

\* A Workspace or GenerationalWorkspace object: its path, the root of its
\* ResultDir and its generations (a dict: the (key, number) pairs in the order
\* of insertion).
WsObject(kind, path, results, generations) ==
    [kind |-> kind, path |-> path, results |-> results, generations |-> generations]

NoWs == WsObject("none", <<>>, <<>>, <<>>)

\* The results argument of the constructors: None or a ResultDir.
None == <<>>
ResultDir(root) == <<root>>

\* ResultDir.sub(subdir)
ResultDir_sub(fs, root, subdir) ==
    LET made == mkdir(fs, root \o <<subdir>>, FALSE, TRUE)
    IN  Outcome(made.fs, made.err, ResultDir(root \o <<subdir>>))

\* Workspace.__init__(path, results=None)
Workspace_init(fs, path, results) ==
    LET made == mkdir(fs, path, TRUE, TRUE)
        res == mkdir(made.fs, path \o <<"results">>, FALSE, TRUE)
    IN  IF made.err # "none" THEN Outcome(made.fs, made.err, NoWs)
        ELSE IF results # None
            THEN Outcome(made.fs, "none", WsObject("Workspace", path, results[1], <<>>))
        ELSE IF res.err # "none" THEN Outcome(res.fs, res.err, NoWs)
        ELSE Outcome(res.fs, "none",
                     WsObject("Workspace", path, path \o <<"results">>, <<>>))

\* Workspace.sub(sub)
Workspace_sub(fs, w, subdir) ==
    LET res == ResultDir_sub(fs, w.results, subdir)
    IN  IF res.err # "none" THEN Outcome(res.fs, res.err, NoWs)
        ELSE Workspace_init(res.fs, w.path, res.val)

DirProps ==
    {"training_data", "validation_data", "test_data", "models", "data",
     "history", "plots", "benchmark"}

FileProps ==
    {"manifest", "stats_file", "k", "normalization_file", "benchmark_data",
     "domain_descriptor"}

\* The path a property appends to the directory it starts from.
Then(o, name) ==
    IF o.err # "none" THEN o ELSE Outcome(o.fs, "none", o.val \o <<name>>)

RECURSIVE property(_, _, _)
\* The properties of Workspace (and of its ResultDir).
property(fs, w, name) ==
    CASE name = "training_data" -> create_dir(fs, w.path \o <<"training">>)
      [] name = "validation_data" -> create_dir(fs, w.path \o <<"validation">>)
      [] name = "test_data" -> create_dir(fs, w.path \o <<"test">>)
      [] name = "models" -> create_dir(fs, w.path \o <<"models">>)
      [] name = "data" -> create_dir(fs, w.path \o <<"data">>)
      [] name = "history" -> create_dir(fs, w.path \o <<"history">>)
      [] name = "plots" -> create_dir(fs, w.results \o <<"plots">>)
      [] name = "benchmark" ->
            LET plots == property(fs, w, "plots")
            IN  IF plots.err # "none" THEN plots
                ELSE create_dir(plots.fs, plots.val \o <<"benchmark">>)
      [] name = "manifest" -> Outcome(fs, "none", w.path \o <<"manifest.json">>)
      [] name = "stats_file" -> Outcome(fs, "none", w.results \o <<"errors.pickle">>)
      [] name = "k" -> Then(property(fs, w, "data"), "k.npy")
      [] name = "normalization_file" ->
            Then(property(fs, w, "training_data"), "normalization.json")
      [] name = "benchmark_data" -> Then(property(fs, w, "benchmark"), "data.json")
      [] name = "domain_descriptor" -> Then(property(fs, w, "data"), "domain.json")

\* A dict as the sequence of its (key, value) pairs in insertion order.
Keys(g) == [i \in 1..Len(g) |-> g[i][1]]
HasKey(g, name) == \E i \in 1..Len(g) : g[i][1] = name
Get(g, name) == g[CHOOSE i \in 1..Len(g) : g[i][1] = name][2]

\* The names of the networks, in the order of Python's string comparison.
Names == <<"t0_isw", "t0_reco", "t1", "t2">>
Rank(name) == CHOOSE i \in 1..Len(Names) : Names[i] = name

RECURSIVE Insert(_, _)
Insert(sortedKeys, name) ==
    IF sortedKeys = <<>> THEN <<name>>
    ELSE IF Rank(name) <= Rank(Head(sortedKeys)) THEN <<name>> \o sortedKeys
    ELSE <<Head(sortedKeys)>> \o Insert(Tail(sortedKeys), name)

\* The keys as the dict iterates over them.
insertion_keys(g) == Keys(g)

RECURSIVE sorted_keys(_)
\* sorted(self.generations)
sorted_keys(g) ==
    IF g = <<>> THEN <<>> ELSE Insert(sorted_keys(Tail(g)), g[1][1])

RECURSIVE Join(_, _)
\* sep.join(parts)
Join(sep, parts) ==
    IF parts = <<>> THEN ""
    ELSE IF Len(parts) = 1 THEN parts[1]
    ELSE parts[1] \o sep \o Join(sep, Tail(parts))

\* "_".join("{}_{}".format(k, g[k]) for k in sorted(self.generations))
suffix(g) ==
    LET ks == sorted_keys(g)
    IN  Join("_", [i \in 1..Len(ks) |-> ks[i] \o "_" \o ToString(Get(g, ks[i]))])

\* GenerationalWorkspace.__init__(path, generations, results=None)
GenerationalWorkspace_init(fs, path, generations, results) ==
    LET base == Workspace_init(fs, path, results)
        res == mkdir(base.fs, path \o <<"results">>, FALSE, TRUE)
        named == mkdir(res.fs, path \o <<"results_" \o suffix(generations)>>,
                       FALSE, TRUE)
    IN  IF base.err # "none" THEN base
        ELSE IF results # None
            THEN Outcome(base.fs, "none",
                         WsObject("GenerationalWorkspace", path, results[1], generations))
        ELSE IF res.err # "none" THEN Outcome(res.fs, res.err, NoWs)
        ELSE IF named.err # "none" THEN Outcome(named.fs, named.err, NoWs)
        ELSE Outcome(named.fs, "none",
                     WsObject("GenerationalWorkspace", path,
                              path \o <<"results_" \o suffix(generations)>>,
                              generations))

\* GenerationalWorkspace.sub(sub)
GenerationalWorkspace_sub(fs, w, subdir) ==
    LET res == ResultDir_sub(fs, w.results, subdir)
    IN  IF res.err # "none" THEN Outcome(res.fs, res.err, NoWs)
        ELSE GenerationalWorkspace_init(res.fs, w.path, w.generations, res.val)

\* sub(sub) of the object's class
sub(fs, w, subdir) ==
    IF w.kind = "GenerationalWorkspace" THEN GenerationalWorkspace_sub(fs, w, subdir)
    ELSE Workspace_sub(fs, w, subdir)

\* model_path(name): Workspace's, overridden by GenerationalWorkspace
model_path(fs, w, name) ==
    IF w.kind = "Workspace" THEN Then(property(fs, w, "models"), name \o ".pt")
    ELSE IF HasKey(w.generations, name)
    THEN Then(property(fs, w, "models"),
              name \o "_" \o ToString(Get(w.generations, name)) \o ".pt")
    ELSE Then(property(fs, w, "models"), name \o ".pt")

\* model_path_checkpoint(name, checkpoint): self.models is read before
\* generations[name] is looked up.
model_path_checkpoint(fs, w, name, checkpoint) ==
    LET models == property(fs, w, "models")
    IN  IF models.err # "none" THEN models
        ELSE IF w.kind = "Workspace"
            THEN Then(models, name \o "_checkpoint_" \o ToString(checkpoint) \o ".pt")
        ELSE IF ~HasKey(w.generations, name) THEN Outcome(models.fs, "KeyError", <<>>)
        ELSE Then(models, name \o "_" \o ToString(Get(w.generations, name))
                          \o "_checkpoint_" \o ToString(checkpoint) \o ".pt")

\* history_for(name): self.history is read before generations[name] is looked
\* up.
history_for(fs, w, name) ==
    LET history == property(fs, w, "history")
    IN  IF history.err # "none" THEN history
        ELSE IF w.kind = "Workspace" THEN Then(history, name \o ".csv")
        ELSE IF ~HasKey(w.generations, name) THEN Outcome(history.fs, "KeyError", <<>>)
        ELSE Then(history, name \o "_" \o ToString(Get(w.generations, name)) \o ".csv")

\* -------------------------------------------------------------------- inputs

MaxNk == 3
MaxB == 3

\* The runs of at most n consecutive entries of a sequence.
Runs(s, n) ==
    {SubSeq(s, i, i + l - 1) : <<i, l>> \in
        {<<i, l>> \in (1..Len(s)) \X (1..n) : i + l - 1 <= Len(s)}}

\* Grids: the runs of a list of wavenumbers that holds increasing and
\* unordered stretches, a point above 0.6 and values that are not positive.
KList ==
    <<Q(1, 10), Q(3, 5), Q1, Q(-1, 10), Q0, Q(3, 5), Q(1, 10), Q(1, 5)>>
Grids == Runs(KList, MaxNk)

SVZero == [j \in 1..n_spline_points |-> Q0]
SVConst == [j \in 1..n_spline_points |-> Q(1, 2)]
SVRamp == [j \in 1..n_spline_points |-> Q(j, 10)]

\* parameters: phases (5), delta_k_d (2), coefficients (2)
Row(p1, p2, p3, p4, p5, d1, d2, c1, c2) ==
    <<Q(p1, 1), Q(p2, 1), Q(p3, 1), Q(p4, 1), Q(p5, 1),
      Q(d1, 1), Q(d2, 1), Q(c1, 1), Q(c2, 1)>>

Sample(r_s, k_d, parameters, spline_values, corr, k_min) ==
    [r_s |-> r_s, k_d |-> k_d, parameters |-> parameters,
     spline_values |-> spline_values, correction |-> corr, k_min |-> k_min]

\* The data set: a list of samples (with what the nets computed for them).
\* A batch is a run of it, as a loader that walks the data set yields them.
SampleList ==
    << Sample(Q(2, 1), Q(3, 10), Row(0, 0, 0, 0, 0, 0, 0, 1, 0), SVZero, Q0,
              Q(1, 10)),
       Sample(Q1, Q1, Row(1, 0, 1, 0, 1, 0, 1, 1, 2), SVConst, Q(1, 2),
              Q(1, 5)),
       Sample(Q0, Q(3, 10), Row(0, 0, 0, 0, 0, 0, 0, 1, 1), SVRamp, Q0,
              Q(1, 10)),
       Sample(Q(-1, 1), Q(-1, 1), Row(0, 1, 0, 1, 0, 1, 1, 2, 1), SVRamp, Q1,
              Q(3, 5)),
       Sample(Q(1, 100), Q0, Row(0, 0, 1, 0, 0, -1, 0, 1, 1), SVConst, Q0,
              Q0),
       Sample(Q(1, 100), Q(1, 100), Row(0, 0, 0, 0, 0, 0, 0, 1, 1), SVZero, Q0,
              Q(1, 10)),
       Sample(Q(2, 1), Q(1, 2), Row(0, 0, 0, 0, 0, 0, 2, 1, 1), SVRamp, Q(1, 2),
              Q(1, 5)) >>

Batches == Runs(SampleList, MaxB)

\* The powers the normalisations are asked for.
MaxPower == 4
Powers == (-MaxPower)..MaxPower

\* The batch of l samples from position p on, and the position after it
\* (the walk starts again at the end of the data set).
BatchAt(p, l) == SubSeq(SampleList, p, p + l - 1)
BatchLens(p) == {l \in 1..MaxB : p + l - 1 <= Len(SampleList)}
PosAfter(p, l) == IF p + l > Len(SampleList) THEN 1 ELSE p + l

\* --------------------------------------------------------------------- state

VARIABLES
    net,            \* "none", "ok" (constructed) or "aborted" (__init__ raised)
    built,          \* the grid __init__ was called with
    k,              \* self.k
    k_spline,       \* self.k_spline
    spline_range,   \* self.spline_range
    op,             \* the last operation
    x,              \* the argument of the last call
    result,         \* what BasisDecompositionNet.forward returned
    raised,         \* the exception the last call ended with, or "none"
    out,            \* what Net_ST0_Reco.forward returned
    pos,            \* the loader's position in the data set
    n_arg,          \* the argument of the last norm_sin / norm_cos call
    n_ret,          \* what it returned
    pc,             \* per thread: how far its forward call has come
    frame,          \* per thread: the local variables of its forward call
    args,           \* per thread: the batch its forward call was given
    dirs,           \* the directories that exist
    files,          \* the regular files that exist
    ws,             \* the workspace object at hand
    call,           \* the arguments of the last workspace call
    ret,            \* the path it returned
    calls,          \* the number of workspace calls so far
    k_min,          \* self.k_min of the Net_ST0_Reco
    loss_fn,        \* <<>>, or <<self.k_min when criterion() was called>>
    loss_out,       \* the truncated loss the last loss call applied
    param_groups,   \* the optimizer's parameter groups, <<>> before optimizer()
    last_epoch,     \* the scheduler's epoch, -1 before lr_scheduler()
    batch,          \* the optimizer steps of this epoch so far
    moved           \* the parameters those steps could change

tvars == <<pc, frame, args>>

fvars == <<dirs, files, ws, call, ret, calls>>

lvars == <<k_min, loss_fn, loss_out>>

gvars == <<param_groups, last_epoch, batch, moved>>

vars ==
    <<net, built, k, k_spline, spline_range, op, x, result, raised, out, pos,
      n_arg, n_ret, pc, frame, args, dirs, files, ws, call, ret, calls,
      k_min, loss_fn, loss_out, param_groups, last_epoch, batch, moved>>

Threads == {1, 2}

Self == [k |-> k, k_spline |-> k_spline, spline_range |-> spline_range]

InitEvaluator ==
    /\ net = "none" /\ built = <<>>
    /\ k = <<>> /\ k_spline = <<>> /\ spline_range = <<>>
    /\ op = "init" /\ x = <<>> /\ result = <<>> /\ raised = "none" /\ out = <<>>
    /\ pos = 1
    /\ n_arg = 0 /\ n_ret = <<>>
    /\ pc = [t \in Threads |-> "idle"]
    /\ frame = [t \in Threads |-> NewFrame(<<>>)]
    /\ args = [t \in Threads |-> <<>>]
    /\ k_min = NoKMin /\ loss_fn = <<>> /\ loss_out = <<>>
    /\ param_groups = <<>> /\ last_epoch = -1 /\ batch = 0 /\ moved = {}

Init ==
    /\ InitEvaluator
    /\ dirs = {} /\ files = {}
    /\ ws = NoWs /\ call = <<>> /\ ret = <<>> /\ calls = 0

\* BasisDecompositionNet.__init__(k, ...): a failed assert leaves no object.
Construct(kk) ==
    /\ net = "none"
    /\ built' = kk
    /\ op' = "construct"
    /\ IF InitAssertsHold(InitKSpline(kk), InitSplineRange(kk))
       THEN /\ net' = "ok"
            /\ k' = kk
            /\ spline_range' = InitSplineRange(kk)
            /\ k_spline' = InitKSpline(kk)
            /\ raised' = "none"
       ELSE /\ net' = "aborted"
            /\ raised' = "AssertionError"
            /\ UNCHANGED <<k, k_spline, spline_range>>
    /\ UNCHANGED <<x, result, out, pos, n_arg, n_ret, tvars, fvars, lvars, gvars>>

\* self.net_basis(x)
Evaluate(l) ==
    /\ net = "ok"
    /\ \E r \in {forward(Self, BatchAt(pos, l))} :
           /\ k' = r.self.k
           /\ k_spline' = r.self.k_spline
           /\ spline_range' = r.self.spline_range
           /\ x' = r.fr.x
           /\ raised' = forward_raises(Self, BatchAt(pos, l))
           /\ result' = IF forward_raises(Self, BatchAt(pos, l)) = "none"
                        THEN r.fr.result ELSE <<>>
    /\ pos' = PosAfter(pos, l)
    /\ op' = "evaluate"
    /\ out' = <<>>
    /\ n_arg' = 0 /\ n_ret' = <<>>
    /\ UNCHANGED <<net, built, tvars, fvars, lvars, gvars>>

\* Net_ST0_Reco.forward(x)
NetForward(l) ==
    /\ net = "ok"
    /\ x' = BatchAt(pos, l)
    /\ out' = net_forward(Self, BatchAt(pos, l))
    /\ pos' = PosAfter(pos, l)
    /\ result' = <<>>
    /\ raised' = "none"
    /\ op' = "net_forward"
    /\ n_arg' = 0 /\ n_ret' = <<>>
    /\ k_min' = first_k_min(BatchAt(pos, l))
    /\ UNCHANGED <<net, built, k, k_spline, spline_range, tvars, fvars, loss_fn,
                   loss_out, gvars>>

\* self.norm_sin(n)
NormSin(n) ==
    /\ net = "ok"
    /\ op' = "norm_sin"
    /\ n_arg' = n
    /\ n_ret' = norm_sin(n)
    /\ x' = <<>> /\ result' = <<>> /\ out' = <<>> /\ raised' = "none"
    /\ UNCHANGED <<net, built, k, k_spline, spline_range, pos, tvars, fvars, lvars, gvars>>

\* self.norm_cos(n)
NormCos(n) ==
    /\ net = "ok"
    /\ op' = "norm_cos"
    /\ n_arg' = n
    /\ n_ret' = norm_cos(n)
    /\ x' = <<>> /\ result' = <<>> /\ out' = <<>> /\ raised' = "none"
    /\ UNCHANGED <<net, built, k, k_spline, spline_range, pos, tvars, fvars, lvars, gvars>>

Next ==
    \/ \E kk \in Grids : Construct(kk)
    \/ \E l \in BatchLens(pos) : Evaluate(l)
    \/ \E l \in BatchLens(pos) : NetForward(l)

Spec == Init /\ [][Next]_vars

\* self.basis(self.k, r_s, phases) on the next batch.
Basis(l) ==
    /\ net = "ok"
    /\ \E r \in {forward_basis(Self, NewFrame(BatchAt(pos, l)))} :
           /\ x' = r.fr.x
           /\ result' = r.fr.basis
    /\ pos' = PosAfter(pos, l)
    /\ op' = "basis"
    /\ out' = <<>> /\ raised' = "none"
    /\ n_arg' = 0 /\ n_ret' = <<>>
    /\ UNCHANGED <<net, built, k, k_spline, spline_range, tvars, fvars, lvars, gvars>>

\* The normalisations and the basis they are meant for.
NextNorm ==
    \/ \E kk \in Grids : Construct(kk)
    \/ \E n \in Powers : NormSin(n)
    \/ \E n \in Powers : NormCos(n)
    \/ \E l \in BatchLens(pos) : Basis(l)

SpecNorm == Init /\ [][NextNorm]_vars

\* Several threads call forward on the one evaluator; a thread may be
\* preempted between any two statements of forward.

\* The grids and the batches of the threads: the longest ones.
ConcGrids == {g \in Grids : Len(g) = MaxNk}
ConcBatches ==
    {BatchAt(p, MaxB) : p \in {p \in 1..(Len(SampleList) - MaxB + 1) : p % 2 = 1}}

\* thread t calls self.net_basis(x)
Call(t, xx) ==
    /\ net = "ok"
    /\ pc[t] = "idle"
    /\ pc' = [pc EXCEPT ![t] = "called"]
    /\ frame' = [frame EXCEPT ![t] = NewFrame(xx)]
    /\ args' = [args EXCEPT ![t] = xx]
    /\ op' = "call"
    /\ UNCHANGED <<net, built, k, k_spline, spline_range, x, result, raised,
                   out, pos, n_arg, n_ret, fvars, lvars, gvars>>

\* The object and the thread's local variables after a part of forward.
Ran(t, r, to) ==
    /\ k' = r.self.k
    /\ k_spline' = r.self.k_spline
    /\ spline_range' = r.self.spline_range
    /\ frame' = [frame EXCEPT ![t] = r.fr]
    /\ pc' = [pc EXCEPT ![t] = to]
    /\ op' = to
    /\ UNCHANGED <<net, built, x, result, raised, out, pos, n_arg, n_ret, args>>
    /\ UNCHANGED <<fvars, lvars, gvars>>

StepBasis(t) ==
    /\ pc[t] = "called"
    /\ \E r \in {forward_basis(Self, frame[t])} : Ran(t, r, "basis")

StepDamping(t) ==
    /\ pc[t] = "basis"
    /\ \E r \in {forward_damping(Self, frame[t])} : Ran(t, r, "damping")

StepSpline(t) ==
    /\ pc[t] = "damping"
    /\ \E r \in {forward_spline(Self, frame[t])} : Ran(t, r, "spline")

StepCat(t) ==
    /\ pc[t] = "spline"
    /\ \E r \in {forward_cat(Self, frame[t])} : Ran(t, r, "done")

\* the caller has taken the result
Return(t) ==
    /\ pc[t] = "done"
    /\ pc' = [pc EXCEPT ![t] = "idle"]
    /\ frame' = [frame EXCEPT ![t] = NewFrame(<<>>)]
    /\ args' = [args EXCEPT ![t] = <<>>]
    /\ op' = "return"
    /\ UNCHANGED <<net, built, k, k_spline, spline_range, x, result, raised,
                   out, pos, n_arg, n_ret, fvars, lvars, gvars>>

NextConc ==
    \/ \E kk \in ConcGrids : Construct(kk)
    \/ \E t \in Threads, xx \in ConcBatches : Call(t, xx)
    \/ \E t \in Threads : StepBasis(t)
    \/ \E t \in Threads : StepDamping(t)
    \/ \E t \in Threads : StepSpline(t)
    \/ \E t \in Threads : StepCat(t)
    \/ \E t \in Threads : Return(t)

SpecConc == Init /\ [][NextConc]_vars

\* The model between its forward calls and the evaluations of its loss.

\* Net_ST0_Reco.forward_reduced_mode(x, k_min_idx)
ForwardReduced(l, k_min_idx) ==
    /\ net = "ok"
    /\ x' = BatchAt(pos, l)
    /\ out' = forward_reduced_mode(Self, BatchAt(pos, l), k_min_idx)
    /\ pos' = PosAfter(pos, l)
    /\ result' = <<>>
    /\ raised' = "none"
    /\ op' = "forward_reduced_mode"
    /\ n_arg' = k_min_idx /\ n_ret' = <<>>
    /\ k_min' = first_k_min(BatchAt(pos, l))
    /\ UNCHANGED <<net, built, k, k_spline, spline_range, tvars, fvars, loss_fn,
                   loss_out, gvars>>

\* Net_ST0_Reco.criterion()
Criterion ==
    /\ net = "ok"
    /\ loss_fn' = <<k_min>>
    /\ op' = "criterion"
    /\ raised' = "none"
    /\ UNCHANGED <<net, built, k, k_spline, spline_range, x, result, out, pos,
                   n_arg, n_ret, tvars, fvars, k_min, loss_out, gvars>>

\* loss(prediction, truth), the function criterion() returned
Loss ==
    /\ net = "ok"
    /\ loss_fn # <<>>
    /\ \E r \in {loss(k, k_min, loss_fn[1])} :
           /\ raised' = r.err
           /\ loss_out' = r.val
    /\ op' = "loss"
    /\ UNCHANGED <<net, built, k, k_spline, spline_range, x, result, out, pos,
                   n_arg, n_ret, tvars, fvars, k_min, loss_fn, gvars>>

\* The grid of the model (k_min is read from the batch, whatever the grid) and
\* the columns the reduced mode is asked for: all, and the last one.
LossGrids == {SubSeq(KList, 1, MaxNk)}
Cuts == {0, MaxNk - 1}

NextLoss ==
    \/ \E kk \in LossGrids : Construct(kk)
    \/ \E l \in BatchLens(pos) : NetForward(l)
    \/ \E l \in BatchLens(pos), k_min_idx \in Cuts : ForwardReduced(l, k_min_idx)
    \/ Criterion
    \/ Loss

SpecLoss == Init /\ [][NextLoss]_vars

\* Training: the optimizer, the scheduler, and epochs of optimizer steps each
\* closed by a scheduler step.

MaxBatches == 2
LearningRates == {Q(1, 1000), Q(1, 100)}

mvars ==
    <<net, built, k, k_spline, spline_range, x, result, out, pos, n_arg, n_ret,
      tvars, fvars, lvars>>

\* model.optimizer(), hp["learning_rate"] being learning_rate
Optimizer(learning_rate) ==
    /\ net = "ok"
    /\ param_groups = <<>>
    /\ param_groups' = optimizer(learning_rate)
    /\ op' = "optimizer"
    /\ raised' = "none"
    /\ UNCHANGED <<last_epoch, batch, moved, mvars>>

\* model.lr_scheduler(optimizer): LambdaLR sets the rates of epoch 0
LrScheduler ==
    /\ param_groups # <<>>
    /\ last_epoch = -1
    /\ last_epoch' = 0
    /\ param_groups' = LambdaLR(param_groups, 0)
    /\ op' = "lr_scheduler"
    /\ raised' = "none"
    /\ UNCHANGED <<batch, moved, mvars>>

\* optimizer.step() on a batch of the epoch
Step ==
    /\ last_epoch \in 0..(epochs - 1)
    /\ batch < MaxBatches
    /\ batch' = batch + 1
    /\ moved' = moved \cup adam_step(param_groups)
    /\ op' = "step"
    /\ raised' = "none"
    /\ UNCHANGED <<param_groups, last_epoch, mvars>>

\* scheduler.step() at the end of the epoch
EpochEnd ==
    /\ last_epoch \in 0..(epochs - 1)
    /\ last_epoch' = last_epoch + 1
    /\ param_groups' = LambdaLR(param_groups, last_epoch + 1)
    /\ batch' = 0
    /\ moved' = {}
    /\ op' = "epoch_end"
    /\ raised' = "none"
    /\ UNCHANGED mvars

NextTrain ==
    \/ \E kk \in LossGrids : Construct(kk)
    \/ \E learning_rate \in LearningRates : Optimizer(learning_rate)
    \/ LrScheduler
    \/ Step
    \/ EpochEnd

SpecTrain == Init /\ [][NextTrain]_vars

\* The workspace on a file system that holds anything.

MaxCalls == 4
WsRoots == {<<"a", "w">>}
SubNames == {"s"}
\* ResultDirs made by the caller
OtherResults == {ResultDir(<<"out">>)}

\* The file systems a workspace may find: nothing, an earlier workspace, and a
\* regular file where a directory is wanted.
FileSystems ==
    {[dirs |-> {}, files |-> {}],
     [dirs |-> {<<"a">>, <<"a", "w">>, <<"a", "w", "results">>, <<"a", "w", "models">>},
      files |-> {<<"a", "w", "manifest.json">>}],
     [dirs |-> {<<"a">>, <<"a", "w">>}, files |-> {<<"a", "w", "training">>}],
     [dirs |-> {<<"a">>, <<"a", "w">>, <<"a", "w", "results">>},
      files |-> {<<"a", "w", "results", "plots">>}],
     [dirs |-> {<<"a">>}, files |-> {<<"a", "w">>}]}

FS == [dirs |-> dirs, files |-> files]

InitWs ==
    /\ InitEvaluator
    /\ \E fs \in FileSystems : dirs = fs.dirs /\ files = fs.files
    /\ ws = NoWs /\ call = <<>> /\ ret = <<>> /\ calls = 0

\* The file system, the exception and the object at hand after a call that
\* returns an object.
Made(o) ==
    /\ calls < MaxCalls
    /\ calls' = calls + 1
    /\ dirs' = o.fs.dirs
    /\ files' = o.fs.files
    /\ raised' = o.err
    /\ ws' = IF o.err = "none" THEN o.val ELSE ws
    /\ ret' = <<>>

\* The file system, the exception and the path after a call that returns a path.
Returned(o) ==
    /\ calls < MaxCalls
    /\ calls' = calls + 1
    /\ dirs' = o.fs.dirs
    /\ files' = o.fs.files
    /\ raised' = o.err
    /\ ret' = IF o.err = "none" THEN o.val ELSE <<>>
    /\ UNCHANGED ws

evars ==
    <<net, built, k, k_spline, spline_range, x, result, out, pos, n_arg, n_ret,
      tvars, lvars, gvars>>

\* Workspace(path, results)
WsConstruct(path, results) ==
    /\ op' = "Workspace"
    /\ call' = <<path, results>>
    /\ \E o \in {Workspace_init(FS, path, results)} : Made(o)
    /\ UNCHANGED evars

\* ws.sub(subdir)
Sub(subdir) ==
    /\ ws.kind # "none"
    /\ op' = "sub"
    /\ call' = <<subdir>>
    /\ \E o \in {sub(FS, ws, subdir)} : Made(o)
    /\ UNCHANGED evars

\* ws.<name>, a property
WsRead(name) ==
    /\ ws.kind # "none"
    /\ op' = name
    /\ call' = <<>>
    /\ \E o \in {property(FS, ws, name)} : Returned(o)
    /\ UNCHANGED evars

NextWs ==
    \/ \E path \in WsRoots, results \in {None} \cup OtherResults :
           WsConstruct(path, results)
    \/ \E subdir \in SubNames : Sub(subdir)
    \/ \E name \in DirProps \cup FileProps : WsRead(name)

SpecWs == InitWs /\ [][NextWs]_vars

\* The workspace of a run with generations of networks.

MaxGen == 2
MaxKeys == 2
Checkpoints == {0, 1}

RECURSIVE Dicts(_)
\* The dicts of n entries, in every order of insertion.
Dicts(n) ==
    IF n = 0 THEN {<<>>}
    ELSE {Append(g, <<name, gen>>) :
            g \in Dicts(n - 1),
            name \in {Names[i] : i \in 1..(Len(Names) - 1)},
            gen \in 1..MaxGen}

Items(g) == {g[i] : i \in 1..Len(g)}

Generations ==
    {g \in UNION {Dicts(n) : n \in 0..MaxKeys} :
        Cardinality({g[i][1] : i \in 1..Len(g)}) = Len(g)}

\* GenerationalWorkspace(path, generations); a run keeps to one set of
\* generations.
GwConstruct(path, generations) ==
    /\ ws.kind = "GenerationalWorkspace" => Items(ws.generations) = Items(generations)
    /\ op' = "GenerationalWorkspace"
    /\ call' = <<path, generations>>
    /\ \E o \in {GenerationalWorkspace_init(FS, path, generations, None)} : Made(o)
    /\ UNCHANGED evars

\* ws.model_path(name)
ModelPath(name) ==
    /\ ws.kind # "none"
    /\ op' = "model_path"
    /\ call' = <<name>>
    /\ \E o \in {model_path(FS, ws, name)} : Returned(o)
    /\ UNCHANGED evars

\* ws.model_path_checkpoint(name, checkpoint)
ModelPathCheckpoint(name, checkpoint) ==
    /\ ws.kind # "none"
    /\ op' = "model_path_checkpoint"
    /\ call' = <<name, checkpoint>>
    /\ \E o \in {model_path_checkpoint(FS, ws, name, checkpoint)} : Returned(o)
    /\ UNCHANGED evars

\* ws.history_for(name)
HistoryFor(name) ==
    /\ ws.kind # "none"
    /\ op' = "history_for"
    /\ call' = <<name>>
    /\ \E o \in {history_for(FS, ws, name)} : Returned(o)
    /\ UNCHANGED evars

NameSet == {Names[i] : i \in 1..Len(Names)}

NextGen ==
    \/ \E path \in WsRoots : ws.kind = "none" /\ WsConstruct(path, None)
    \/ \E path \in WsRoots, g \in Generations : GwConstruct(path, g)
    \/ \E subdir \in SubNames : Sub(subdir)
    \/ \E name \in NameSet : ModelPath(name)
    \/ \E name \in NameSet, c \in Checkpoints : ModelPathCheckpoint(name, c)
    \/ \E name \in NameSet : HistoryFor(name)

SpecGen == Init /\ [][NextGen]_vars

\* ------------------------------------------------------------------- claims
\* What the claims say of a call, written from the call's argument x and the
\* grid alone.

NB == Len(x)
NK == Len(k)
PhasesOf(b) == SubSeq(x[b].parameters, 1, 5)
DeltaOf(b) == SubSeq(x[b].parameters, 6, 7)
CoefOf(b) == SubSeq(x[b].parameters, 8, 9)

\* phases[0] + k r_s (1 + phases[1]) + k^2 phases[2]
ArgCos(b, i) ==
    QAdd(QAdd(PhasesOf(b)[1],
              QMul(QMul(k[i], x[b].r_s), QAdd(Q1, PhasesOf(b)[2]))),
         QMul(QMul(k[i], k[i]), PhasesOf(b)[3]))

\* k r_s (1 + phases[3]) + k^2 phases[4]
ArgSin(b, i) ==
    QAdd(QMul(QMul(k[i], x[b].r_s), QAdd(Q1, PhasesOf(b)[4])),
         QMul(QMul(k[i], k[i]), PhasesOf(b)[5]))

\* The cosine and the sine branch, c = 1, 2.
Branch(c, b, i) ==
    IF c = 1 THEN Cos(ArgCos(b, i))
    ELSE TMul(Sin(ArgSin(b, i)), TQ(QMul(QInv(k[i]), QInv(x[b].r_s))))

\* exp(-(k/k_d)^2 (1 + d)^2)
Envelope(b, i, d) ==
    Exp(QMul(QNeg(QDiv(QMul(k[i], k[i]), QMul(x[b].k_d, x[b].k_d))),
             QPow(QAdd(Q1, d), 2)))

Weighted(c, b, i, d) ==
    TMul(TMul(TQ(CoefOf(b)[c]), Branch(c, b, i)), Envelope(b, i, d))

InRange(i) == QLe(k[1], k[i]) /\ QLe(k[i], Q(3, 5))

Residual(b, i) ==
    IF InRange(i) THEN SplineAt(k_spline, x[b].spline_values, k[i]) ELSE TZero

NonPositive(q) == QLe(q, Q0)

\* C1: a call of the basis evaluation with a sample whose k_d <= 0 or whose
\* r_s <= 0 ends with a DomainError and returns no result stack.
C1_DomainErrorOnNonPositiveScale ==
    (op = "evaluate" /\ \E b \in 1..NB :
        NonPositive(x[b].k_d) \/ NonPositive(x[b].r_s))
    => (raised = "DomainError" /\ result = <<>>)

C3_ThreeComponentsUnsummed ==
    /\ op = "evaluate" =>
        /\ Len(result) = 3
        /\ \A c \in 1..3 :
            /\ Len(result[c]) = NB
            /\ \A b \in 1..NB : Len(result[c][b]) = NK
        /\ \A b \in 1..NB, i \in 1..NK :
            /\ result[1][b][i] = Weighted(1, b, i, DeltaOf(b)[1])
            /\ result[2][b][i] = Weighted(2, b, i, DeltaOf(b)[2])
            /\ result[3][b][i] = Residual(b, i)
    /\ op = "net_forward" =>
        /\ Len(out) = NB
        /\ \A b \in 1..NB :
            /\ Len(out[b]) = NK
            /\ \A i \in 1..NK :
                out[b][i] = SumTerms(<<Weighted(1, b, i, DeltaOf(b)[1]),
                                       Weighted(2, b, i, DeltaOf(b)[2]),
                                       Residual(b, i),
                                       TQ(x[b].correction)>>)

\* A call on a batch of several samples and a grid of several points whose
\* three components differ.
C3_Witness ==
    /\ op = "evaluate" /\ NB >= 2 /\ NK >= 2
    /\ \E b \in 1..NB, i \in 1..NK :
        /\ result[1][b][i] # result[2][b][i]
        /\ result[2][b][i] # result[3][b][i]
        /\ result[1][b][i] # result[3][b][i]
        /\ \A c \in 1..3 : TIsFinite(result[c][b][i]) /\ result[c][b][i] # TZero

\* C4: the spline residual is 0 at every grid point below k[0] or above 0.6,
\* and the spline value at every grid point of [k[0], 0.6], bounds included.
C4_ResidualZeroOutsideRange ==
    op = "evaluate" =>
        \A b \in 1..NB, i \in 1..NK :
            /\ (QLt(k[i], k[1]) \/ QLt(Q(3, 5), k[i])) => result[3][b][i] = TZero
            /\ (QLe(k[1], k[i]) /\ QLe(k[i], Q(3, 5))) =>
                result[3][b][i] = SplineAt(k_spline, x[b].spline_values, k[i])

\* A call on a grid with a point below the range, a point above it and the
\* point 0.6 itself, where the spline is not 0.
C4_Witness ==
    /\ op = "evaluate"
    /\ \E i \in 1..NK : QLt(k[i], k[1])
    /\ \E i \in 1..NK : QLt(Q(3, 5), k[i])
    /\ \E b \in 1..NB, i \in 1..NK :
        /\ k[i] = Q(3, 5)
        /\ result[3][b][i] # TZero

Brackets(ks, range) ==
    /\ QLe(ks[1], range[1])
    /\ QLe(range[2], ks[Len(ks)])

\* C5: a constructed evaluator's 12-point control grid brackets spline_range
\* (first point <= lower bound, last point >= upper bound) in every state,
\* the control grid being the one built at construction; a grid whose control
\* grid does not bracket the range aborts the construction and leaves no
\* evaluator.
C5_ControlGridBracketsRange ==
    /\ net = "ok" =>
        /\ Len(k_spline) = 12
        /\ Brackets(k_spline, spline_range)
        /\ k_spline = InitKSpline(built)
        /\ spline_range = <<built[1], Q(3, 5)>>
    /\ net = "aborted" =>
        /\ ~Brackets(InitKSpline(built), <<built[1], Q(3, 5)>>)
        /\ raised = "AssertionError"
        /\ k = <<>> /\ k_spline = <<>> /\ result = <<>> /\ out = <<>>
    /\ (net = "none") = (built = <<>>)

\* An evaluator that has been called twice since it was constructed.
C5_Witness ==
    /\ net = "ok" /\ op = "evaluate" /\ pos > 2
    /\ Brackets(k_spline, spline_range)
    /\ QLt(k_spline[1], spline_range[1])

C8_NormCosZeroIsOne ==
    /\ (op = "norm_cos" /\ n_arg = 0) => n_ret = TOne
    /\ op = "basis" =>
        \A b \in 1..NB, i \in 1..NK :
            (k[i] # Q0 /\ x[b].r_s # Q0) =>
                /\ result[1][b][i] = TDiv(Cos(ArgCos(b, i)), norm_cos(0))
                /\ result[2][b][i] =
                    TDiv(Sin(ArgSin(b, i)),
                         TMul(TQ(QMul(k[i], x[b].r_s)), norm_cos(0)))

\* norm_cos has been called with 0.
C8_Witness == op = "norm_cos" /\ n_arg = 0 /\ n_ret = TOne

\* The evaluator as __init__ left it.
Pristine ==
    [k |-> built, k_spline |-> InitKSpline(built),
     spline_range |-> InitSplineRange(built)]

\* C6: however the forward calls of several threads interleave, no call
\* changes the grid, the spline grid or spline_range of the evaluator, nor
\* the batch it was given, and a finished call holds the result the same call
\* gives alone on the evaluator as constructed.
C6_CallsDoNotInterfere ==
    /\ net = "ok" =>
        /\ k = built
        /\ k_spline = InitKSpline(built)
        /\ spline_range = InitSplineRange(built)
    /\ \A t \in Threads :
        /\ pc[t] # "idle" => frame[t].x = args[t]
        /\ pc[t] = "done" =>
            frame[t].result = forward(Pristine, args[t]).fr.result

\* A call that finished while a call of the other thread, on another batch,
\* was under way.
C6_Witness ==
    \E t, u \in Threads :
        /\ t # u
        /\ pc[t] = "done" /\ pc[u] \in {"basis", "damping", "spline"}
        /\ args[t] # args[u]
        /\ Len(frame[t].result) = 3

\* The directory a directory property names.
ExpectedDir(w, name) ==
    CASE name = "training_data" -> w.path \o <<"training">>
      [] name = "validation_data" -> w.path \o <<"validation">>
      [] name = "test_data" -> w.path \o <<"test">>
      [] name = "models" -> w.path \o <<"models">>
      [] name = "data" -> w.path \o <<"data">>
      [] name = "history" -> w.path \o <<"history">>
      [] name = "plots" -> w.results \o <<"plots">>
      [] name = "benchmark" -> w.results \o <<"plots", "benchmark">>

\* The file a file property names.
ExpectedFile(w, name) ==
    CASE name = "manifest" -> w.path \o <<"manifest.json">>
      [] name = "stats_file" -> w.results \o <<"errors.pickle">>
      [] name = "k" -> w.path \o <<"data", "k.npy">>
      [] name = "normalization_file" -> w.path \o <<"training", "normalization.json">>
      [] name = "benchmark_data" -> w.results \o <<"plots", "benchmark", "data.json">>
      [] name = "domain_descriptor" -> w.path \o <<"data", "domain.json">>

\* The same read, made again now, returns the same path and changes nothing.
Repeatable == property(FS, ws, op) = Outcome(FS, "none", ret)

\* A regular file stands at the path or at one of its ancestors.
Obstructed(p) == \E n \in 1..Len(p) : SubSeq(p, 1, n) \in files

ReadObstructed == Obstructed(ExpectedDir(ws, op))

\* C9 as stated: from any file system and after any calls, every read of a
\* directory property returns a path under the workspace root whose directory
\* exists, a repeated read returns the same and changes nothing, no call
\* removes a directory, and every file property has its parent directory made
\* while no file is made.
C9_MkdirOnAccess ==
    [][/\ dirs \subseteq dirs'
       /\ files' = files
       /\ op' \in DirProps =>
            /\ raised' = "none"
            /\ IsPrefix(ws'.path, ret')
            /\ ret' \in dirs'
            /\ Repeatable'
       /\ op' \in FileProps =>
            /\ raised' = "none"
            /\ Parent(ret') \in dirs']_vars

\* C9, amended: no call removes a directory or makes or removes a file. A read
\* of a directory property that returns gives the path the property names
\* (under the workspace root for the six data directories, under the root of
\* the ResultDir for plots and benchmark, which is under the workspace root
\* when the ResultDir is), the directory exists then, and the read made again
\* returns the same path and changes nothing. A read that does not return
\* raises FileExistsError or NotADirectoryError, a regular file standing at the
\* path or above it. k, normalization_file, benchmark_data and
\* domain_descriptor make their parent directory; manifest and stats_file
\* always return and make nothing.
C9_MkdirOnAccessUnlessObstructed ==
    [][/\ dirs \subseteq dirs'
       /\ files' = files
       /\ (op' \in DirProps /\ raised' = "none") =>
            /\ ret' = ExpectedDir(ws', op')
            /\ ret' \in dirs'
            /\ Repeatable'
            /\ IsPrefix(ws'.path, ws'.results) => IsPrefix(ws'.path, ret')
            /\ op' \notin {"plots", "benchmark"} => IsPrefix(ws'.path, ret')
       /\ (op' \in DirProps /\ raised' # "none") =>
            /\ raised' \in {"FileExistsError", "NotADirectoryError"}
            /\ ReadObstructed'
       /\ (op' \in FileProps /\ raised' = "none") =>
            /\ ret' = ExpectedFile(ws', op')
            /\ op' \notin {"manifest", "stats_file"} => Parent(ret') \in dirs'
            /\ op' = "manifest" => Parent(ret') \in dirs'
       /\ op' \in {"manifest", "stats_file"} =>
            /\ raised' = "none"
            /\ dirs' = dirs]_vars

\* benchmark read of a workspace made by sub(): the directory was made.
C9_Witness ==
    /\ op = "benchmark"
    /\ raised = "none"
    /\ ws.results = ws.path \o <<"results", "s">>
    /\ ret = ws.path \o <<"results", "s", "plots", "benchmark">>
    /\ ret \in dirs

\* The number of a name in the generations at hand.
GenOf(name) == CHOOSE gen \in 1..(MaxGen + 1) : <<name, gen>> \in Items(ws.generations)

RECURSIVE PairsJoined(_)
\* The "{key}_{gen}" pairs of the given keys, joined by "_".
PairsJoined(ks) ==
    IF ks = <<>> THEN ""
    ELSE Head(ks) \o "_" \o ToString(GenOf(Head(ks)))
         \o (IF Tail(ks) = <<>> THEN "" ELSE "_" \o PairsJoined(Tail(ks)))

\* The keys of the generations at hand in sorted order, whatever the order of
\* their insertion.
KeysInOrder == SelectSeq(Names, LAMBDA name : HasKey(ws.generations, name))

ExpectedResults == ws.path \o <<"results_" \o PairsJoined(KeysInOrder)>>

\* C10: in a GenerationalWorkspace the results directory is "results_" and the
\* "{key}_{gen}" pairs in sorted key order, also after sub(); for a name in
\* generations model_path, model_path_checkpoint and history_for return the
\* paths suffixed by its generation; for a name not in generations model_path
\* returns models/"{name}.pt" while model_path_checkpoint and history_for
\* raise.
C10_PathsSuffixedByGeneration ==
    ws.kind = "GenerationalWorkspace" =>
        /\ IsPrefix(ExpectedResults, ws.results)
        /\ \A i \in (Len(ExpectedResults) + 1)..Len(ws.results) :
              ws.results[i] \in SubNames
        /\ ws.results \in dirs
        /\ (op = "sub" /\ raised = "none") =>
              ws.results[Len(ws.results)] = call[1]
        /\ op = "model_path" =>
              /\ raised = "none"
              /\ ret = ws.path \o
                    <<"models",
                      IF HasKey(ws.generations, call[1])
                      THEN call[1] \o "_" \o ToString(GenOf(call[1])) \o ".pt"
                      ELSE call[1] \o ".pt">>
        /\ op = "model_path_checkpoint" =>
              IF HasKey(ws.generations, call[1])
              THEN /\ raised = "none"
                   /\ ret = ws.path \o
                         <<"models",
                           call[1] \o "_" \o ToString(GenOf(call[1]))
                           \o "_checkpoint_" \o ToString(call[2]) \o ".pt">>
              ELSE raised = "KeyError" /\ ret = <<>>
        /\ op = "history_for" =>
              IF HasKey(ws.generations, call[1])
              THEN /\ raised = "none"
                   /\ ret = ws.path \o
                         <<"history",
                           call[1] \o "_" \o ToString(GenOf(call[1])) \o ".csv">>
              ELSE raised = "KeyError" /\ ret = <<>>

\* A checkpoint path asked of a workspace made by sub(), whose generations
\* were inserted out of order, for a name that has no generation.
C10_Witness ==
    /\ ws.kind = "GenerationalWorkspace"
    /\ Len(ws.generations) = 2
    /\ Rank(ws.generations[1][1]) > Rank(ws.generations[2][1])
    /\ Len(ws.results) = Len(ws.path) + 2
    /\ op = "model_path_checkpoint"
    /\ ~HasKey(ws.generations, call[1])
    /\ raised = "KeyError"

\* C11: every forward and forward_reduced_mode call leaves self.k_min at the
\* k_min of the first sample of its batch, and a loss evaluation truncates with
\* self.k_min as it is then, the k_min of the most recent forward call,
\* whatever it was when criterion() was called.
C11_LossReadsKMinOfLastForward ==
    net = "ok" =>
        /\ k_min = IF x = <<>> THEN NoKMin ELSE <<x[1].k_min>>
        /\ op = "loss" =>
              IF x = <<>> THEN raised = "AttributeError" /\ loss_out = <<>>
              ELSE /\ raised = "none"
                   /\ loss_out.k_min = x[1].k_min
                   /\ loss_out.k = k

\* A loss evaluation after criterion() and then a forward call on a batch
\* whose first k_min differs from the one criterion() saw and from that of the
\* batch's second sample.
C11_Witness ==
    /\ op = "loss"
    /\ raised = "none"
    /\ loss_fn[1] # NoKMin
    /\ loss_fn[1] # k_min
    /\ Len(x) >= 2
    /\ x[2].k_min # x[1].k_min
    /\ loss_out.k_min = x[1].k_min

\* A rate that is a positive number times an exponential.
Positive(t) == QIsFinite(t.q) /\ QLt(Q0, t.q)

\* C12: the optimizer has three pairwise disjoint groups, basis without spline
\* parameters, spline parameters, correction net, in this order; in every epoch
\* 0..39 the rate of the basis group is positive, that of the spline group is
\* not 0 exactly before epoch 5 and that of the correction group is not 0
\* exactly from epoch 5 on; no epoch changes both spline and correction
\* parameters, and from epoch 5 on no spline parameter is changed.
C12_TrainingIsPhased ==
    param_groups # <<>> =>
        /\ Len(param_groups) = 3
        /\ param_groups[1].params = basis_parameters \ spline_parameters
        /\ param_groups[2].params = spline_parameters
        /\ param_groups[3].params = correction_parameters
        /\ \A g, h \in 1..3 :
              g # h => param_groups[g].params \cap param_groups[h].params = {}
        /\ last_epoch \in 0..(epochs - 1) =>
              /\ Positive(param_groups[1].lr)
              /\ param_groups[2].lr # TZero <=> last_epoch < 5
              /\ param_groups[3].lr # TZero <=> last_epoch >= 5
              /\ param_groups[2].lr = TZero \/ Positive(param_groups[2].lr)
              /\ param_groups[3].lr = TZero \/ Positive(param_groups[3].lr)
        /\ moved \cap spline_parameters = {} \/ moved \cap correction_parameters = {}
        /\ last_epoch >= 5 => moved \cap spline_parameters = {}
        /\ (last_epoch \in 0..4 /\ batch > 0) => spline_parameters \subseteq moved
        /\ (last_epoch \in 5..(epochs - 1) /\ batch > 0) =>
              correction_parameters \subseteq moved

\* The last epoch, after a step: the correction net moves, the spline net rests.
C12_Witness ==
    /\ last_epoch = epochs - 1
    /\ batch > 0
    /\ correction_parameters \subseteq moved
    /\ moved \cap spline_parameters = {}
    /\ param_groups[2].lr = TZero

====
